---- MODULE Spec2Model ----
(***************************************************************************)
(* A model of the TraderVue client (src/tradervue.py): the import-and-poll *)
(* workflow of import_executions, the paged listing of get_trades, the     *)
(* resource operations and the interpretation of failed responses.         *)
(* The HTTP transport is the environment: every request is answered by a   *)
(* response chosen from a finite set of status codes and body shapes.      *)
(* The variable trace records every transport request and every sleep.     *)
(***************************************************************************)
EXTENDS Integers, Sequences, FiniteSets, TLC

VARIABLES
  pc,                  \* position of the running call
  executions,          \* import_executions argument
  account_tag,         \* import_executions argument
  tags_arg,            \* import_executions argument tags, as passed
  tags,                \* the local name tags of import_executions
  caller_tags,         \* the object the caller passed as tags
  import_retries,      \* import_executions argument
  wait_for_completion, \* import_executions argument
  wait_retries,        \* import_executions argument
  batch,               \* the import batch built at line 314..322
  data,                \* the local name data of __import_executions
  retries_left,        \* the loop counter of __import_executions
  import_posted,       \* the flag of __import_executions
  result,              \* how the call ended
  trace,               \* transport requests and sleeps, in order
  max_trades,          \* get_trades argument
  side,                \* get_trades argument
  duration,            \* get_trades argument
  tag_expr,            \* get_trades argument
  query,               \* the local name data of get_trades
  page,                \* the loop variable of get_trades
  total_pages,         \* get_trades local
  all_trades,          \* get_trades local
  warned,              \* whether get_trades logged the casing-hint warning
  operation,           \* the resource operation called
  response,            \* the response handed to __handle_bad_http_response
  target_user,         \* self.target_user
  logged,              \* the server error logged at line 105
  hinted               \* whether the permission hint of line 108 was logged

vars == << pc, executions, account_tag, tags_arg, tags, caller_tags, import_retries,
           wait_for_completion, wait_retries, batch, data, retries_left,
           import_posted, result, trace, max_trades, side, duration, tag_expr,
           query, page, total_pages, all_trades, warned, operation, response,
           target_user, logged, hinted >>

importVars == << executions, account_tag, tags_arg, tags, caller_tags, import_retries,
                 wait_for_completion, wait_retries, batch, data, retries_left,
                 import_posted >>

tradesVars == << max_trades, side, duration, tag_expr, query, page,
                 total_pages, all_trades, warned >>

resourceVars == << operation, response, target_user, logged, hinted >>

-----------------------------------------------------------------------------
(* Bounds of the model *)

MaxImportRetries == 2
MaxWaitRetries == 2
MaxTags == 2
MaxTrades == 250

(* Program constants *)

ImportRetrySleepSecs == 5
DefaultImportRetries == 3
SecsPerWaitRetry == 15
PageSize == 100

-----------------------------------------------------------------------------
(* Python values *)

Absent == "<absent>"
PyNone == [type |-> "NoneType"]
NoKey == [type |-> "<no key>"]
PyList(s) == [type |-> "list", items |-> s]
PyTuple(s) == [type |-> "tuple", items |-> s]
PyStr(s) == [type |-> "str", items |-> s]
PyInt == [type |-> "int"]
PyBool(b) == [type |-> "bool", value |-> b]

Range(s) == { s[i] : i \in 1..Len(s) }

SeqsUpTo(S, n) == UNION { [1..k -> S] : k \in 0..n }

\* len() is defined for sized objects only; on the others it raises TypeError
HasLen(v) == v.type \in {"list", "tuple", "str"}

NoExc == "none"
Running == [outcome |-> "running"]
Returned(v) == [outcome |-> "returned", value |-> v]
Raised(e) == [outcome |-> "raised", exc |-> e]

-----------------------------------------------------------------------------
(* The transport's answers: a status code and a body.  A body is a JSON    *)
(* object (with or without the keys status, error, trades, ...), a JSON    *)
(* value that is not an object (a number, null, a string, a list), or text *)
(* that is not JSON.  Of a JSON string or list the model keeps the words   *)
(* for which Python's test  word in value  is true (a substring of the     *)
(* string, an element of the list).                                        *)

KnownStatuses == {"ready", "queued", "processing", "succeeded", "failed"}
StatusValues == KnownStatuses \cup {"bogus"}

JsonObject(st, er) == [kind |-> "object", status |-> st, error |-> er]
JsonNumber == [kind |-> "number", status |-> Absent, error |-> Absent]
NotJson == [kind |-> "text", status |-> Absent, error |-> Absent]
JsonNull == [kind |-> "null", status |-> Absent, error |-> Absent]
JsonString(words) == [kind |-> "string", status |-> Absent, error |-> Absent, holds |-> words]
JsonList(words) == [kind |-> "list", status |-> Absent, error |-> Absent, holds |-> words]
JsonObjectWith(key, v) == [kind |-> "object", status |-> Absent, error |-> Absent] @@ (key :> v)

Response(c, b) == [code |-> c, body |-> b]
NoResponse == [code |-> 0]

Responses200 ==
  { Response(200, JsonObject(st, Absent)) : st \in StatusValues \cup {Absent} }
    \cup { Response(200, JsonNumber), Response(200, NotJson) }

Responses424 ==
  { Response(424, JsonObject(Absent, "busy")), Response(424, JsonObject(Absent, Absent)),
    Response(424, JsonNumber), Response(424, NotJson) }

ResponsesOther ==
  { Response(500, JsonObject(Absent, "boom")), Response(500, JsonNumber),
    Response(500, NotJson) }

Responses == Responses200 \cup Responses424 \cup ResponsesOther

\* the answers to GET /imports: 424 is to import_status one more non-200 code
StatusResponses == Responses200 \cup ResponsesOther

PostEvent(payload, r) == [op |-> "POST", url |-> "imports", payload |-> payload, resp |-> r]
GetEvent(u, params, r) == [op |-> "GET", url |-> u, payload |-> params, resp |-> r]
SleepEvent(secs, why) == [op |-> "sleep", secs |-> secs, phase |-> why]

-----------------------------------------------------------------------------
(* __handle_bad_http_response, lines 83..108: the exception it lets        *)
(* escape, the server error it logs and whether it logs the permission     *)
(* hint.  json.loads raises ValueError on text that is not JSON, which is  *)
(* caught (line 100).  The test 'error' in jdata (line 93) raises          *)
(* TypeError on a JSON number or null; on a JSON string or list it is a    *)
(* substring or element test, and when it (or the test of line 95) is true *)
(* the subscript jdata['error'] (jdata['status']) raises TypeError.  No    *)
(* TypeError is caught.  The status line of lines 86..88 is formatted from *)
(* the code and the URL and is logged as it is.                            *)

NotLogged == [src |-> "none"]
FieldValue(key, v) == [src |-> key, value |-> v]
RawText(r) == [src |-> "text", of |-> r.body]

InterpretBadResponse(r, tu) ==
  LET b == r.body
      raises(e) == [exc |-> e, logged |-> NotLogged, hinted |-> FALSE]
      logs(x) == [exc |-> NoExc, logged |-> x, hinted |-> (r.code = 403 /\ tu # PyNone)]
  IN IF b.kind = "text" THEN logs(RawText(r))
     ELSE IF b.kind \in {"number", "null"} THEN raises("TypeError")
     ELSE IF b.kind = "object"
          THEN IF b.error # Absent THEN logs(FieldValue("error", b.error))
               ELSE IF b.status # Absent THEN logs(FieldValue("status", b.status))
               ELSE logs(RawText(r))
          ELSE IF "error" \in b.holds \/ "status" \in b.holds THEN raises("TypeError")
               ELSE logs(RawText(r))

HandleBadHttpResponse(r) == InterpretBadResponse(r, PyNone).exc

\* the bodies and codes handed to the interpreter on its own
InterpreterBodies ==
  { JsonObject(st, er) : st \in {Absent, "failed"}, er \in {Absent, "boom"} }
    \cup { JsonNumber, JsonNull, NotJson }
    \cup { JsonString(w) : w \in SUBSET {"error", "status"} }
    \cup { JsonList(w) : w \in SUBSET {"error", "status"} }

BadCodes == {400, 403, 404, 500}
TargetUsers == {PyNone, PyInt}

\* one call of __handle_bad_http_response(response, msg)
Interpret ==
  /\ pc = "respond"
  /\ LET i == InterpretBadResponse(response, target_user)
     IN /\ result' = (IF i.exc = NoExc THEN Returned(PyNone) ELSE Raised(i.exc))
        /\ logged' = i.logged
        /\ hinted' = i.hinted
  /\ pc' = "done"
  /\ UNCHANGED << operation, response, target_user, trace >>
  /\ UNCHANGED importVars
  /\ UNCHANGED tradesVars

(* import_status: [exc, value]; value is the payload or None *)

ImportStatus(r) ==
  IF r.code = 200
  THEN IF r.body.kind = "text" THEN [exc |-> "ValueError", value |-> PyNone]
       ELSE IF r.body.kind = "number" THEN [exc |-> "TypeError", value |-> PyNone]
       ELSE IF r.body.status = Absent THEN [exc |-> "KeyError", value |-> PyNone]
       ELSE IF r.body.status \notin KnownStatuses THEN [exc |-> NoExc, value |-> PyNone]
       ELSE [exc |-> NoExc, value |-> r.body]
  ELSE [exc |-> HandleBadHttpResponse(r), value |-> PyNone]

-----------------------------------------------------------------------------
(* import_executions, lines 305..324 *)

TagUniverse == {"a", "b", "ACCT1"}
AccountTags == {Absent, "ACCT1", "a"}

ExecutionsInputs ==
  { PyList(<<>>), PyList(<<"e1">>), PyTuple(<<>>), PyTuple(<<"e1">>), PyInt }

TagsInputs ==
  {PyNone, PyStr(<<"a">>)} \cup { PyList(s) : s \in SeqsUpTo(TagUniverse, MaxTags) }

\* lines 306..312: the exception the validation raises, if any
ValidateImport(ex, tg) ==
  IF ~HasLen(ex) THEN "TypeError"
  ELSE IF Len(ex.items) = 0 THEN "ValueError"
  ELSE IF ex.type # "list" THEN "ValueError"
  ELSE IF tg # PyNone /\ tg.type # "list" THEN "ValueError"
  ELSE NoExc

\* lines 317..320: the object the name tags is bound to after the injection
InjectAccountTag_Mut(at, tg) ==
  IF at # Absent
  THEN LET t == IF tg = PyNone THEN PyList(<<>>) ELSE tg
       IN PyList(Append(t.items, at))
  ELSE tg

InjectAccountTag(at, tg) ==
  IF at # Absent
  THEN LET t == IF tg = PyNone THEN PyList(<<>>) ELSE tg
       IN IF at \notin Range(t.items) THEN PyList(Append(t.items, at)) ELSE t
  ELSE tg

\* lines 314..322: the request payload; a key the code does not set is NoKey
BuildBatch(ex, at, tg, ad, oc) ==
  [kind |-> "batch",
   executions |-> ex.items,
   allow_duplicates |-> ad,
   overlay_commissions |-> oc,
   account_tag |-> at,
   tags |-> IF tg # PyNone THEN PyList(tg.items) ELSE NoKey]

ImportExecutions(ex, at, tg, ad, oc, R, wfc, W) ==
  /\ pc = "idle"
  /\ executions' = ex
  /\ account_tag' = at
  /\ tags_arg' = tg
  /\ import_retries' = R
  /\ wait_for_completion' = wfc
  /\ wait_retries' = W
  /\ trace' = <<>>
  /\ LET exc == ValidateImport(ex, tg)
         injected == InjectAccountTag(at, tg)
     IN IF exc # NoExc
        THEN /\ result' = Raised(exc)
             /\ pc' = "done"
             /\ tags' = tg
             /\ caller_tags' = tg
             /\ batch' = PyNone
             /\ data' = PyNone
             /\ retries_left' = 0
             /\ import_posted' = FALSE
        ELSE /\ result' = Running
             /\ pc' = "submit"
             /\ tags' = injected
             \* tags.append acts on the caller's list; tags = [] binds a new one
             /\ caller_tags' = IF tg = PyNone THEN tg ELSE injected
             /\ batch' = BuildBatch(ex, at, injected, ad, oc)
             /\ data' = BuildBatch(ex, at, injected, ad, oc)
             /\ retries_left' = R
             /\ import_posted' = FALSE
  /\ UNCHANGED tradesVars
  /\ UNCHANGED resourceVars

-----------------------------------------------------------------------------
(* __import_executions, lines 326..382 *)

\* the submission loop's condition, line 331
SubmitLoopContinues_Mut == retries_left >= 0

SubmitLoopContinues == retries_left > 0

\* lines 334..350: what the answer r to the POST leads to.  kind is "posted"
\* (break), "retry" (sleep and loop), "return" (return None) or "raise";
\* rebinds says whether the name data was bound to the parsed body
PostOutcome(r) ==
  IF r.code = 200
  THEN IF r.body.kind = "text"
       THEN [kind |-> "raise", exc |-> "ValueError", rebinds |-> FALSE]
       ELSE IF r.body.kind = "number"
       THEN [kind |-> "raise", exc |-> "TypeError", rebinds |-> TRUE]
       ELSE IF r.body.status = Absent
       THEN [kind |-> "raise", exc |-> "KeyError", rebinds |-> TRUE]
       ELSE IF r.body.status # "queued"
       THEN [kind |-> "return", exc |-> NoExc, rebinds |-> TRUE]
       ELSE [kind |-> "posted", exc |-> NoExc, rebinds |-> TRUE]
  ELSE IF r.code = 424
  THEN IF r.body.kind = "text"
       THEN [kind |-> "raise", exc |-> "ValueError", rebinds |-> FALSE]
       ELSE IF r.body.kind = "number"
       THEN [kind |-> "raise", exc |-> "TypeError", rebinds |-> TRUE]
       ELSE IF r.body.error = Absent
       THEN [kind |-> "raise", exc |-> "KeyError", rebinds |-> TRUE]
       ELSE [kind |-> "retry", exc |-> NoExc, rebinds |-> TRUE]
  ELSE IF HandleBadHttpResponse(r) # NoExc
  THEN [kind |-> "raise", exc |-> HandleBadHttpResponse(r), rebinds |-> FALSE]
  ELSE [kind |-> "return", exc |-> NoExc, rebinds |-> FALSE]

\* one iteration of the submission loop, lines 331..350
SubmitAttempt(r) ==
  /\ pc = "submit"
  /\ SubmitLoopContinues
  /\ retries_left' = retries_left - 1
  /\ data' = IF PostOutcome(r).rebinds THEN r.body ELSE data
  /\ LET o == PostOutcome(r)
     IN CASE o.kind = "posted" ->
               /\ trace' = Append(trace, PostEvent(data, r))
               /\ import_posted' = TRUE
               /\ pc' = "submitted"
               /\ UNCHANGED result
          [] o.kind = "retry" ->
               /\ trace' = trace \o << PostEvent(data, r),
                                      SleepEvent(ImportRetrySleepSecs, "submit") >>
               /\ UNCHANGED << import_posted, pc, result >>
          [] o.kind = "return" ->
               /\ trace' = Append(trace, PostEvent(data, r))
               /\ result' = Returned(PyNone)
               /\ pc' = "done"
               /\ UNCHANGED import_posted
          [] OTHER ->
               /\ trace' = Append(trace, PostEvent(data, r))
               /\ result' = Raised(o.exc)
               /\ pc' = "done"
               /\ UNCHANGED import_posted
  /\ UNCHANGED << executions, account_tag, tags, tags_arg, caller_tags,
                  import_retries, wait_for_completion, wait_retries, batch >>
  /\ UNCHANGED tradesVars
  /\ UNCHANGED resourceVars

\* the polling loop's condition, line 361
StillProcessing_NoBudget ==
  /\ data # PyNone
  /\ data.status \in {"queued", "processing"}

StillProcessing_Ready ==
  /\ data # PyNone
  /\ data.status \in {"queued", "processing", "ready"}
  /\ retries_left >= 0

StillProcessing ==
  /\ data # PyNone
  /\ data.status \in {"queued", "processing"}
  /\ retries_left >= 0

\* lines 352, 355, 381: the branch taken after the submission loop
AfterSubmission_Mut(posted, wfc) ==
  IF ~posted THEN "gave up" ELSE "wait"

AfterSubmission(posted, wfc) ==
  IF ~posted THEN "gave up"
  ELSE IF wfc THEN "wait"
  ELSE "submitted only"

\* after the submission loop: lines 352..359 and 381..382
FinishSubmission(r) ==
  /\ \/ pc = "submitted"
     \/ pc = "submit" /\ ~SubmitLoopContinues
  /\ IF AfterSubmission(import_posted, wait_for_completion) = "wait"
     THEN /\ retries_left' = wait_retries
          /\ trace' = Append(trace, GetEvent("imports", PyNone, r))
          /\ IF ImportStatus(r).exc # NoExc
             THEN /\ result' = Raised(ImportStatus(r).exc)
                  /\ pc' = "done"
                  /\ UNCHANGED data
             ELSE /\ data' = ImportStatus(r).value
                  /\ pc' = "poll"
                  /\ UNCHANGED result
     ELSE /\ result' = Returned(PyNone)
          /\ pc' = "done"
          /\ UNCHANGED << data, retries_left, trace >>
  /\ UNCHANGED << executions, account_tag, tags, tags_arg, caller_tags,
                  import_retries, wait_for_completion, wait_retries, batch,
                  import_posted >>
  /\ UNCHANGED tradesVars
  /\ UNCHANGED resourceVars

\* one iteration of the polling loop, lines 361..364
PollRetry(r) ==
  /\ pc = "poll"
  /\ StillProcessing
  /\ retries_left' = retries_left - 1
  /\ trace' = trace \o << SleepEvent(SecsPerWaitRetry, "poll"),
                          GetEvent("imports", PyNone, r) >>
  /\ IF ImportStatus(r).exc # NoExc
     THEN /\ result' = Raised(ImportStatus(r).exc)
          /\ pc' = "done"
          /\ UNCHANGED data
     ELSE /\ data' = ImportStatus(r).value
          /\ UNCHANGED << result, pc >>
  /\ UNCHANGED << executions, account_tag, tags, tags_arg, caller_tags,
                  import_retries, wait_for_completion, wait_retries, batch,
                  import_posted >>
  /\ UNCHANGED tradesVars
  /\ UNCHANGED resourceVars

\* the final classification, lines 366..380; data['status'] raises TypeError
\* when data is None
ClassifyStatus_Mut(d) ==
  IF d = PyNone THEN Raised("TypeError")
  ELSE IF d.status = "ready" THEN Returned(PyNone)
  ELSE IF d.status = "succeeded" THEN Returned(PyNone)
  ELSE Returned(PyNone)

ClassifyStatus(d) ==
  IF d = PyNone THEN Raised("TypeError")
  ELSE IF d.status = "ready" THEN Returned(PyNone)
  ELSE IF d.status = "succeeded" THEN Returned(d)
  ELSE IF d.status = "failure" THEN Returned(d)
  ELSE IF d.status \in {"queued", "processing"} THEN Returned(PyNone)
  ELSE Returned(PyNone)

Classify ==
  /\ pc = "poll"
  /\ ~StillProcessing
  /\ result' = ClassifyStatus(data)
  /\ pc' = "done"
  /\ UNCHANGED << importVars, trace >>
  /\ UNCHANGED tradesVars
  /\ UNCHANGED resourceVars

-----------------------------------------------------------------------------
(* Strings, as sequences of characters, and the regular expressions of     *)
(* get_trades                                                              *)

Lowers == << "a", "b", "c", "d", "e", "f", "g", "h", "i", "j", "k", "l", "m",
             "n", "o", "p", "q", "r", "s", "t", "u", "v", "w", "x", "y", "z" >>
Uppers == << "A", "B", "C", "D", "E", "F", "G", "H", "I", "J", "K", "L", "M",
             "N", "O", "P", "Q", "R", "S", "T", "U", "V", "W", "X", "Y", "Z" >>

IndexIn(alphabet, c) == CHOOSE i \in 1..Len(alphabet) : alphabet[i] = c

LowerChar(c) == IF c \in Range(Uppers) THEN Lowers[IndexIn(Uppers, c)] ELSE c
UpperChar(c) == IF c \in Range(Lowers) THEN Uppers[IndexIn(Lowers, c)] ELSE c
LowerStr(s) == [i \in 1..Len(s) |-> LowerChar(s[i])]

Whitespace == {" ", "\t", "\n"}

\* re.match(r'^(w1|w2|...)$', s, re.IGNORECASE): $ also matches before a
\* newline that ends the string
MatchesWord(s, words) ==
  \/ LowerStr(s) \in words
  \/ /\ Len(s) > 0
     /\ s[Len(s)] = "\n"
     /\ LowerStr(SubSeq(s, 1, Len(s) - 1)) \in words

\* re.search(r'\sw\s', s)
SearchSpaced(s, w) ==
  \E i \in 1..Len(s) :
    /\ i + Len(w) + 1 <= Len(s)
    /\ s[i] \in Whitespace
    /\ SubSeq(s, i + 1, i + Len(w)) = w
    /\ s[i + Len(w) + 1] \in Whitespace

SideWords == { <<"l", "o", "n", "g">>, <<"s", "h", "o", "r", "t">> }
DurationWords == { <<"i", "n", "t", "r", "a", "d", "a", "y">>,
                   <<"m", "u", "l", "t", "i", "d", "a", "y">> }

\* line 161
DubiousTagExpr_Mut(t) == SearchSpaced(t, <<"a", "n", "d">>)

DubiousTagExpr(t) ==
  SearchSpaced(t, <<"a", "n", "d">>) \/ SearchSpaced(t, <<"o", "r">>)

-----------------------------------------------------------------------------
(* get_trades, lines 155..205, and __get_trades, lines 207..219 *)

TradesObject(ts) == [kind |-> "object", status |-> Absent, error |-> Absent, trades |-> ts]

\* the trades at positions (p-1)*c+1 .. (p-1)*c+n of the server's result
TradesOfPage(p, c, n) == [i \in 1..n |-> (p - 1) * c + i]

\* the answers to GET /trades for page p with count c
TradesResponses(p, c) ==
  { Response(200, TradesObject(TradesOfPage(p, c, n))) : n \in {0, 1, c} }
    \cup { Response(200, JsonObject(Absent, Absent)), Response(200, JsonNumber),
           Response(200, NotJson) }
    \cup ResponsesOther

\* __get_trades: [exc, value]; value is the list of trades or None
GetTradesPage(r) ==
  IF r.code = 200
  THEN IF r.body.kind = "text" THEN [exc |-> "ValueError", value |-> PyNone]
       ELSE IF r.body.kind = "number" THEN [exc |-> "TypeError", value |-> PyNone]
       ELSE IF "trades" \notin DOMAIN r.body THEN [exc |-> NoExc, value |-> PyNone]
       ELSE [exc |-> NoExc, value |-> PyList(r.body.trades)]
  ELSE [exc |-> HandleBadHttpResponse(r), value |-> PyNone]

\* lines 182..184: int(math.ceil(max_trades / 100.0))
TotalPages(M) ==
  IF M > PageSize THEN (M + PageSize - 1) \div PageSize ELSE 1

\* lines 188..190
PageCount_Mut(M, collected) == PageSize

PageCount(M, collected) ==
  LET trades_left == M - collected
  IN IF trades_left >= PageSize THEN PageSize ELSE trades_left

\* lines 167..177: the exception the validation raises, if any
ValidateFilters(sd, du) ==
  IF sd # PyNone /\ ~MatchesWord(sd.items, SideWords) THEN "ValueError"
  ELSE IF du # PyNone /\ ~MatchesWord(du.items, DurationWords) THEN "ValueError"
  ELSE NoExc

\* side[0].upper(), duration[0].upper()
FirstUpper(v) == IF v = PyNone THEN Absent ELSE UpperChar(v.items[1])

GetTrades(sd, du, te, M) ==
  /\ pc = "idle"
  /\ side' = sd
  /\ duration' = du
  /\ tag_expr' = te
  /\ max_trades' = M
  /\ trace' = <<>>
  /\ all_trades' = <<>>
  /\ warned' = FALSE
  /\ IF ValidateFilters(sd, du) # NoExc
     THEN /\ result' = Raised(ValidateFilters(sd, du))
          /\ pc' = "done"
          /\ query' = PyNone
          /\ total_pages' = 0
          /\ page' = 0
     ELSE /\ result' = Running
          /\ pc' = "page"
          /\ query' = [tag |-> IF te = PyNone THEN Absent ELSE te.items,
                       side |-> FirstUpper(sd),
                       duration |-> FirstUpper(du),
                       page |-> Absent,
                       count |-> Absent]
          /\ total_pages' = TotalPages(M)
          /\ page' = 1
  /\ UNCHANGED importVars
  /\ UNCHANGED resourceVars

\* one iteration of the page loop, lines 187..200
FetchPage(r) ==
  /\ pc = "page"
  /\ page <= total_pages
  /\ LET params == [query EXCEPT !.page = page,
                                 !.count = PageCount(max_trades, Len(all_trades))]
         got == GetTradesPage(r)
     IN /\ query' = params
        /\ trace' = Append(trace, GetEvent("trades", params, r))
        /\ IF got.exc # NoExc
           THEN /\ result' = Raised(got.exc)
                /\ pc' = "done"
                /\ UNCHANGED << page, all_trades >>
           ELSE IF got.value = PyNone
           THEN /\ result' = Returned(PyNone)
                /\ pc' = "done"
                /\ UNCHANGED << page, all_trades >>
           ELSE IF Len(got.value.items) = 0
           THEN /\ pc' = "listed"
                /\ UNCHANGED << result, page, all_trades >>
           ELSE /\ all_trades' = all_trades \o got.value.items
                /\ page' = page + 1
                /\ UNCHANGED << result, pc >>
  /\ UNCHANGED << max_trades, side, duration, tag_expr, total_pages, warned >>
  /\ UNCHANGED importVars
  /\ UNCHANGED resourceVars

\* after the page loop, lines 202..205
FinishListing ==
  /\ \/ pc = "listed"
     \/ pc = "page" /\ page > total_pages
  /\ warned' = (tag_expr # PyNone /\ DubiousTagExpr(tag_expr.items)
                  /\ Len(all_trades) = 0)
  /\ result' = Returned(PyList(all_trades))
  /\ pc' = "done"
  /\ UNCHANGED << max_trades, side, duration, tag_expr, query, page,
                  total_pages, all_trades, trace >>
  /\ UNCHANGED importVars
  /\ UNCHANGED resourceVars

-----------------------------------------------------------------------------
(* The resource operations, lines 110..153, 221..287 and 384..439.  Each   *)
(* issues at most one request and ends in the same step.                   *)

ResourceBodies ==
  { JsonObject(Absent, "boom"), JsonObject(Absent, Absent), JsonObjectWith("id", PyInt),
    JsonObjectWith("executions", PyList(<<"x1">>)), JsonObjectWith("comments", PyList(<<>>)),
    JsonObjectWith("users", PyList(<<"u1">>)), JsonNumber, NotJson }

ResourceCodes == {200, 201, 403, 500}
ResourceResponses == { Response(c, b) : c \in ResourceCodes, b \in ResourceBodies }

\* r.headers['Location'], if the response has the header
LocationHeaders == { NoKey, PyStr(<<"/", "7">>) }

PyDict(keys) == [type |-> "dict", keys |-> keys]
RequestEvent(method, u, payload, r) == [op |-> method, url |-> u, payload |-> payload, resp |-> r]

\* a branch that ends without __handle_bad_http_response
Ends(res) == [result |-> res, response |-> NoResponse, logged |-> NotLogged, hinted |-> FALSE]

\* a branch that calls __handle_bad_http_response(r, msg) and then returns v
Failure(r, v) ==
  LET i == InterpretBadResponse(r, target_user)
  IN [result |-> IF i.exc = NoExc THEN Returned(v) ELSE Raised(i.exc),
      response |-> r, logged |-> i.logged, hinted |-> i.hinted]

\* json.loads(r.text)
JsonLoads(r) ==
  IF r.body.kind = "text" THEN Raised("ValueError") ELSE Returned(r.body)

\* json.loads(r.text)[key], as lines 124..125 and 432..433
JsonSubscript(r, key) ==
  IF r.body.kind = "text" THEN Raised("ValueError")
  ELSE IF r.body.kind # "object" THEN Raised("TypeError")
  ELSE IF key \notin DOMAIN r.body THEN Raised("KeyError")
  ELSE Returned(r.body[key])

\* lines 242..248, 257..263, 389..395: None if the key is missing, else the
\* collection under the key, whose length is logged
JsonCollection(r, key) ==
  IF r.body.kind = "text" THEN Raised("ValueError")
  ELSE IF r.body.kind # "object" THEN Raised("TypeError")
  ELSE IF key \notin DOMAIN r.body THEN Returned(PyNone)
  ELSE IF ~HasLen(r.body[key]) THEN Raised("TypeError")
  ELSE Returned(r.body[key])

ResourceCall(name, events, o) ==
  /\ pc = "idle"
  /\ operation' = name
  /\ trace' = events
  /\ result' = o.result
  /\ response' = o.response
  /\ logged' = o.logged
  /\ hinted' = o.hinted
  /\ pc' = "done"
  /\ UNCHANGED target_user
  /\ UNCHANGED importVars
  /\ UNCHANGED tradesVars

\* create_trade(symbol, return_url = return_url), lines 110..128
CreateTrade(return_url, r, location) ==
  ResourceCall("create_trade",
    << RequestEvent("POST", "trades", PyDict({"symbol", "shared"}), r) >>,
    IF r.code = 201
    THEN IF return_url
         THEN Ends(IF location = NoKey THEN Raised("KeyError") ELSE Returned(location))
         ELSE Ends(JsonSubscript(r, "id"))
    ELSE Failure(r, PyNone))

\* delete_trades(*trade_ids), lines 130..141: line 132 reads the local name
\* trade_id before the loop of line 134 binds it
DeleteTrades ==
  ResourceCall("delete_trades", <<>>, Ends(Raised("UnboundLocalError")))

\* delete_trade(trade_id), lines 143..153
DeleteTrade(r) ==
  ResourceCall("delete_trade",
    << RequestEvent("DELETE", "trades/id", PyNone, r) >>,
    IF r.code = 200 THEN Ends(Returned(PyBool(TRUE))) ELSE Failure(r, PyBool(FALSE)))

\* get_trade(trade_id), lines 221..231
GetTrade(r) ==
  ResourceCall("get_trade",
    << RequestEvent("GET", "trades/id", PyNone, r) >>,
    IF r.code = 200 THEN Ends(JsonLoads(r)) ELSE Failure(r, PyNone))

\* get_trade_executions(trade_id), lines 233..248
GetTradeExecutions(r) ==
  ResourceCall("get_trade_executions",
    << RequestEvent("GET", "trades/id/executions", PyNone, r) >>,
    IF r.code = 200 THEN Ends(JsonCollection(r, "executions")) ELSE Failure(r, PyNone))

\* get_trade_comments(trade_id), lines 250..265
GetTradeComments(r) ==
  ResourceCall("get_trade_comments",
    << RequestEvent("GET", "trades/id/comments", PyNone, r) >>,
    IF r.code = 200 THEN Ends(JsonCollection(r, "comments")) ELSE Failure(r, PyNone))

\* update_trade(trade_id, notes = notes), lines 267..287: the message of
\* line 286 has one %s and two arguments, so formatting it raises TypeError
\* before __handle_bad_http_response is called
UpdateTrade(notes, r) ==
  IF notes = PyNone
  THEN ResourceCall("update_trade", <<>>, Ends(Returned(PyBool(FALSE))))
  ELSE ResourceCall("update_trade",
         << RequestEvent("PUT", "trades/id", PyDict({"notes"}), r) >>,
         IF r.code = 200 THEN Ends(Returned(PyBool(TRUE))) ELSE Ends(Raised("TypeError")))

\* get_users(), lines 384..398
GetUsers(r) ==
  ResourceCall("get_users",
    << RequestEvent("GET", "users", PyNone, r) >>,
    IF r.code = 200 THEN Ends(JsonCollection(r, "users")) ELSE Failure(r, PyNone))

\* get_user(user_id), lines 400..411
GetUser(r) ==
  ResourceCall("get_user",
    << RequestEvent("GET", "users", PyNone, r) >>,
    IF r.code = 200 THEN Ends(JsonLoads(r)) ELSE Failure(r, PyNone))

\* update_user(user_id, plan), lines 413..423: line 417 reads the name data,
\* which no line binds, before the request is made
UpdateUser ==
  ResourceCall("update_user", <<>>, Ends(Raised("NameError")))

\* create_user(username, plan, email, password), lines 425..439: the message
\* of line 438 reads the name symbol, which no line binds
CreateUser(r) ==
  ResourceCall("create_user",
    << RequestEvent("POST", "users", PyDict({"username", "plan", "email", "password"}), r) >>,
    IF r.code = 201 THEN Ends(JsonSubscript(r, "id")) ELSE Ends(Raised("NameError")))

-----------------------------------------------------------------------------
(* The import workflow: one call of import_executions *)

InitClient(at, tu, r) ==
  /\ pc = at
  /\ executions = PyNone
  /\ account_tag = Absent
  /\ tags_arg = PyNone
  /\ tags = PyNone
  /\ caller_tags = PyNone
  /\ import_retries = 0
  /\ wait_for_completion = FALSE
  /\ wait_retries = 0
  /\ batch = PyNone
  /\ data = PyNone
  /\ retries_left = 0
  /\ import_posted = FALSE
  /\ result = Running
  /\ trace = <<>>
  /\ max_trades = 0
  /\ side = PyNone
  /\ duration = PyNone
  /\ tag_expr = PyNone
  /\ query = PyNone
  /\ page = 0
  /\ total_pages = 0
  /\ all_trades = <<>>
  /\ warned = FALSE
  /\ operation = "none"
  /\ response = r
  /\ target_user = tu
  /\ logged = NotLogged
  /\ hinted = FALSE

Init == InitClient("idle", PyNone, NoResponse)

\* Spec: the workflow under every retry budget, with a few argument shapes
Next ==
  \/ \E ex \in ExecutionsInputs, at \in {Absent, "ACCT1"},
        tg \in {PyNone, PyStr(<<"a">>), PyList(<<"a">>)},
        R \in 0..MaxImportRetries, wfc \in BOOLEAN, W \in 0..MaxWaitRetries :
       ImportExecutions(ex, at, tg, FALSE, FALSE, R, wfc, W)
  \/ \E r \in Responses : SubmitAttempt(r)
  \/ \E r \in StatusResponses : FinishSubmission(r)
  \/ \E r \in StatusResponses : PollRetry(r)
  \/ Classify

Spec == Init /\ [][Next]_vars

\* SpecBatch: every argument shape, under the default retry budget and no wait
NextBatch ==
  \/ \E ex \in ExecutionsInputs, at \in AccountTags, tg \in TagsInputs,
        ad \in BOOLEAN, oc \in BOOLEAN :
       ImportExecutions(ex, at, tg, ad, oc, DefaultImportRetries, FALSE, 0)
  \/ \E r \in Responses : SubmitAttempt(r)
  \/ \E r \in StatusResponses : FinishSubmission(r)

SpecBatch == Init /\ [][NextBatch]_vars

\* SpecTrades: one call of get_trades
SideInputs ==
  { PyNone, PyStr(<<"L", "o", "n", "g">>), PyStr(<<"s", "h", "o", "r", "t">>),
    PyStr(<<"s", "i", "d", "e", "w", "a", "y", "s">>), PyStr(<<"l", "o", "n", "g", "s">>),
    PyStr(<<"l", "o", "n", "g", "\n">>), PyStr(<<>>) }
DurationInputs ==
  { PyNone, PyStr(<<"M", "U", "L", "T", "I", "D", "A", "Y">>),
    PyStr(<<"I", "n", "t", "r", "a", "d", "a", "y">>), PyStr(<<"w", "e", "e", "k">>),
    PyStr(<<"i", "n", "t", "r", "a", "d", "a", "y", "\n">>) }
TagExprInputs ==
  { PyNone, PyStr(<<"f", "o", "o", " ", "a", "n", "d", " ", "b", "a", "r">>),
    PyStr(<<"f", "o", "o", " ", "A", "N", "D", " ", "b", "a", "r">>),
    PyStr(<<"a", " ", "o", "r", " ", "b">>), PyStr(<<"a", "n", "d", " ", "b">>),
    PyStr(<<"s", "a", "n", "d", " ", "o", "r", "e">>) }

NextTrades ==
  \/ \E M \in 0..MaxTrades : GetTrades(PyNone, PyNone, PyNone, M)
  \/ \E sd \in SideInputs, du \in DurationInputs, te \in TagExprInputs,
        M \in {1, PageSize + 1} : GetTrades(sd, du, te, M)
  \/ \E r \in TradesResponses(page, PageCount(max_trades, Len(all_trades))) : FetchPage(r)
  \/ FinishListing

SpecTrades == Init /\ [][NextTrades]_vars

\* SpecResources: one call of a resource operation, with and without a
\* target user
InitResources == \E tu \in TargetUsers : InitClient("idle", tu, NoResponse)

NextResources ==
  \/ \E return_url \in BOOLEAN, r \in ResourceResponses, location \in LocationHeaders :
        CreateTrade(return_url, r, location)
  \/ DeleteTrades
  \/ \E r \in ResourceResponses : DeleteTrade(r)
  \/ \E r \in ResourceResponses : GetTrade(r)
  \/ \E r \in ResourceResponses : GetTradeExecutions(r)
  \/ \E r \in ResourceResponses : GetTradeComments(r)
  \/ \E notes \in {PyNone, PyStr(<<"n">>)}, r \in ResourceResponses : UpdateTrade(notes, r)
  \/ \E r \in ResourceResponses : GetUsers(r)
  \/ \E r \in ResourceResponses : GetUser(r)
  \/ UpdateUser
  \/ \E r \in ResourceResponses : CreateUser(r)

SpecResources == InitResources /\ [][NextResources]_vars

\* SpecInterpreter: __handle_bad_http_response applied to one response
InitInterpreter ==
  \E c \in BadCodes, b \in InterpreterBodies, tu \in TargetUsers :
    InitClient("respond", tu, Response(c, b))

NextInterpreter == Interpret

SpecInterpreter == InitInterpreter /\ [][NextInterpreter]_vars

-----------------------------------------------------------------------------
(* What the trace holds *)

IsPost(e) == e.op = "POST"
IsGet(e) == e.op = "GET"
IsPollSleep(e) == e.op = "sleep" /\ e.phase = "poll"
IsSubmitSleep(e) == e.op = "sleep" /\ e.phase = "submit"

Posts == SelectSeq(trace, IsPost)
Gets == SelectSeq(trace, IsGet)
PollSleeps == SelectSeq(trace, IsPollSleep)
SubmitSleeps == SelectSeq(trace, IsSubmitSleep)

\* the request e was answered 200 with a status value in S
AnsweredStatus(e, S) ==
  /\ e.resp.code = 200
  /\ e.resp.body.kind = "object"
  /\ e.resp.body.status \in S

AnsweredQueued(e) == AnsweredStatus(e, {"queued"})

\* the 424 answers that carry the server's error message
BusyAnswers == { r \in Responses424 : r.body.kind = "object" /\ r.body.error # Absent }

InProgress == {"queued", "processing"}

-----------------------------------------------------------------------------
(* Claims on import_executions, under the specification Spec *)

\* C1: with 424 answers that carry the server's error message (a JSON object
\* with an error field, which line 346 logs): 424 k times and then 200/queued
\* posts the import with exactly k+1 POSTs, k+1 <= import_retries, and k
\* sleeps; a call whose every POST was answered 424 has issued exactly
\* import_retries POSTs and no status query, and has returned None.
C1_SubmissionRetries ==
  LET posts == Posts
  IN /\ \A i \in 1..Len(posts) :
          ( /\ \A k \in 1..(i - 1) : posts[k].resp \in BusyAnswers
            /\ AnsweredQueued(posts[i]) )
          => /\ import_posted
             /\ Len(posts) = i
             /\ i <= import_retries
             /\ Len(SubmitSleeps) = i - 1
     /\ ( /\ pc = "done"
          /\ batch # PyNone
          /\ \A k \in 1..Len(posts) : posts[k].resp \in BusyAnswers )
        => /\ Len(posts) = import_retries
           /\ Gets = <<>>
           /\ result = Returned(PyNone)

C1_Witness ==
  /\ pc = "done"
  /\ import_retries = 2
  /\ Len(Posts) = 2
  /\ Posts[1].resp \in BusyAnswers
  /\ AnsweredQueued(Posts[2])
  /\ import_posted
  /\ Len(SubmitSleeps) = 1

\* C2: a waiting call whose submission succeeded and whose every status query
\* was answered queued or processing returns None (timeout) after exactly
\* wait_retries + 1 status queries.
C2_TimeoutAfterBudgetPlusOne ==
  ( /\ pc = "done"
    /\ wait_for_completion
    /\ import_posted
    /\ Len(Gets) > 0
    /\ \A i \in 1..Len(Gets) : AnsweredStatus(Gets[i], InProgress) )
  => /\ result = Returned(PyNone)
     /\ Len(Gets) = wait_retries + 1

\* C3: when the last status query was answered failed, the call returns that
\* status payload.
C3_FailedPayloadReturned ==
  ( /\ pc = "done"
    /\ Len(Gets) > 0
    /\ AnsweredStatus(Gets[Len(Gets)], {"failed"}) )
  => /\ result.outcome = "returned"
     /\ result.value = Gets[Len(Gets)].resp.body

\* C4: j answers queued/processing and then succeeded, j <= wait_retries: the
\* call returns the succeeded payload after exactly j polling sleeps and j+1
\* status queries; polling is not given up before wait_retries + 1 queries;
\* no polling sleep precedes the first status query.
C4_PollUntilSucceeded ==
  LET gets == Gets
      n == Len(gets)
  IN /\ \A i \in 1..n : AnsweredStatus(gets[i], {"succeeded"}) => i = n
     /\ ( /\ pc = "done"
          /\ n > 0
          /\ \A i \in 1..(n - 1) : AnsweredStatus(gets[i], InProgress)
          /\ AnsweredStatus(gets[n], {"succeeded"})
          /\ n - 1 <= wait_retries )
        => /\ result = Returned(gets[n].resp.body)
           /\ Len(PollSleeps) = n - 1
     /\ ( /\ pc = "done"
          /\ n > 0
          /\ \A i \in 1..n : AnsweredStatus(gets[i], InProgress) )
        => n > wait_retries
     /\ \A i \in 1..Len(trace) :
          IsPollSleep(trace[i]) => \E k \in 1..(i - 1) : IsGet(trace[k])

C4_Witness ==
  /\ pc = "done"
  /\ wait_retries = 2
  /\ Len(Gets) = 3
  /\ AnsweredStatus(Gets[1], {"queued"})
  /\ AnsweredStatus(Gets[2], {"processing"})
  /\ AnsweredStatus(Gets[3], {"succeeded"})
  /\ Len(PollSleeps) = 2
  /\ result = Returned(Gets[3].resp.body)

\* a status query that failed: a non-200 answer, or a 200 answer whose status
\* value is not one of ready/queued/processing/succeeded/failed.  The bodies
\* are those __handle_bad_http_response reads without raising (a JSON object,
\* or text that is not JSON), so that the failure is import_status's None.
FailedQuery(e) ==
  /\ e.resp.body.kind \in {"object", "text"}
  /\ \/ e.resp.code # 200
     \/ /\ e.resp.body.kind = "object"
        /\ e.resp.body.status # Absent
        /\ e.resp.body.status \notin KnownStatuses

\* C5: a call in which a status query failed ends by returning the failure
\* None; it does not raise.
C5_FailedQueryReturnsFailure ==
  ( /\ pc = "done"
    /\ \E i \in 1..Len(Gets) : FailedQuery(Gets[i]) )
  => result = Returned(PyNone)

InvalidImportArgs ==
  \/ HasLen(executions) /\ Len(executions.items) = 0
  \/ executions.type # "list"
  \/ tags_arg # PyNone /\ tags_arg.type # "list"

\* C6: a call with an empty batch, with executions that is not a list, or with
\* tags that is neither None nor a list raises ValueError, and issues no
\* request and no sleep.
C6_InvalidArgsRaiseValueError ==
  (pc # "idle" /\ InvalidImportArgs)
  => /\ pc = "done"
     /\ result = Raised("ValueError")
     /\ trace = <<>>

\* a POST answered 200 with a status value other than queued, or with a code
\* other than 200 and 424
NonRetryable(e) ==
  \/ /\ e.resp.code = 200
     /\ e.resp.body.kind = "object"
     /\ e.resp.body.status \notin {Absent, "queued"}
  \/ e.resp.code \notin {200, 424}

\* C7: every POST but the last was answered 424; a POST answered 200 with a
\* status other than queued, or with a code other than 200 and 424, is the last
\* event of the call (no sleep, POST or status query follows) and the call has
\* returned the failure None.
C7_NonRetryableEndsCall ==
  LET posts == Posts
  IN \A i \in 1..Len(posts) :
       /\ i < Len(posts) => posts[i].resp.code = 424
       /\ NonRetryable(posts[i])
          => /\ i = Len(posts)
             /\ trace[Len(trace)] = posts[i]
             /\ pc = "done"
             /\ result = Returned(PyNone)

\* C9: without wait_for_completion, once a POST is answered 200/queued nothing
\* follows it (no status query, no sleep) and the call returns None.
C9_NoWaitReturnsAtOnce ==
  (~wait_for_completion /\ import_posted)
  => /\ Gets = <<>>
     /\ IsPost(trace[Len(trace)])
     /\ AnsweredQueued(trace[Len(trace)])
     /\ pc \in {"submitted", "done"}
     /\ pc = "done" => result = Returned(PyNone)

C9_Witness ==
  /\ pc = "done"
  /\ ~wait_for_completion
  /\ import_posted
  /\ Len(SubmitSleeps) = 1
  /\ result = Returned(PyNone)

-----------------------------------------------------------------------------
(* Claims on the import batch, under the specification SpecBatch *)

TagsGiven == IF tags_arg = PyNone THEN <<>> ELSE tags_arg.items

\* C8: the tag list of the import batch, and of the request that carries it,
\* is the caller's tags with account_tag appended exactly when account_tag is
\* given and not among them; with neither tags nor account_tag there is no tag
\* list.
C8_AccountTagInjected ==
  batch # PyNone =>
    /\ Len(Posts) >= 1 => Posts[1].payload = batch
    /\ IF account_tag # Absent /\ account_tag \notin Range(TagsGiven)
       THEN batch.tags = PyList(Append(TagsGiven, account_tag))
       ELSE IF tags_arg # PyNone
       THEN batch.tags = PyList(TagsGiven)
       ELSE batch.tags = NoKey

C8_Witness ==
  /\ Len(Posts) >= 1
  /\ account_tag = "ACCT1"
  /\ tags_arg = PyList(<<"a", "b">>)
  /\ Posts[1].payload.tags = PyList(<<"a", "b", "ACCT1">>)

-----------------------------------------------------------------------------
(* Claims on get_trades, under the specification SpecTrades *)

HasTrades(e) ==
  /\ e.resp.code = 200
  /\ e.resp.body.kind = "object"
  /\ "trades" \in DOMAIN e.resp.body

FullPage(e) == HasTrades(e) /\ Len(e.resp.body.trades) = e.payload.count
EmptyPage(e) == HasTrades(e) /\ Len(e.resp.body.trades) = 0

RECURSIVE TradesReturned(_)
TradesReturned(gets) ==
  IF gets = <<>> THEN <<>>
  ELSE gets[1].resp.body.trades \o TradesReturned(Tail(gets))

\* C10: with max_trades = M > 100 and every page answered with as many trades
\* as requested, the requests are pages 1..n with (n-1)*100 < M <= n*100, each
\* asking for 100 trades but the last, which asks for what is left of M; a page
\* answered with zero trades is the last request, and the call returns the
\* trades of the pages before it.
C10_PageRequests ==
  LET gets == Gets
      n == Len(gets)
  IN max_trades > PageSize =>
       /\ ( /\ pc = "done"
            /\ n > 0
            /\ \A i \in 1..n : FullPage(gets[i]) )
          => /\ (n - 1) * PageSize < max_trades
             /\ max_trades <= n * PageSize
             /\ \A i \in 1..n :
                  /\ gets[i].payload.page = i
                  /\ gets[i].payload.count =
                       IF i * PageSize <= max_trades
                       THEN PageSize
                       ELSE max_trades - (i - 1) * PageSize
             /\ result = Returned(PyList(TradesReturned(gets)))
       /\ \A i \in 1..n :
            ( /\ EmptyPage(gets[i])
              /\ \A k \in 1..(i - 1) : HasTrades(gets[k]) )
            => /\ i = n
               /\ pc \in {"listed", "done"}
               /\ pc = "done" => result = Returned(PyList(TradesReturned(gets)))

C10_Witness ==
  /\ pc = "done"
  /\ max_trades = 250
  /\ Len(Gets) = 3
  /\ \A i \in 1..3 : FullPage(Gets[i])
  /\ Gets[1].payload.count = 100
  /\ Gets[2].payload.count = 100
  /\ Gets[3].payload.count = 50

\* a page request that failed: a non-200 answer, or a 200 answer whose JSON
\* body has no trades field
FailedPage(e) ==
  \/ e.resp.code # 200
  \/ /\ e.resp.body.kind \in {"object", "number"}
     /\ "trades" \notin DOMAIN e.resp.body

\* C11: a page request that failed is the last request of the listing, and the
\* listing has returned None (not the trades of the earlier pages).
C11_FailedPageReturnsNone ==
  \A i \in 1..Len(Gets) :
    FailedPage(Gets[i])
    => /\ i = Len(Gets)
       /\ pc = "done"
       /\ result = Returned(PyNone)

\* the filter value is, up to case, one of the words
EqualsWord(v, words) == LowerStr(v.items) \in words

\* C13: a side that is long or short up to case is sent as L or S, a duration
\* that is intraday or multiday up to case as I or M; a call with any other
\* side or duration (not None) raises ValueError and issues no request.
C13_FiltersNormalizedOrRejected ==
  pc # "idle" =>
    IF \/ side # PyNone /\ ~EqualsWord(side, SideWords)
       \/ duration # PyNone /\ ~EqualsWord(duration, DurationWords)
    THEN /\ pc = "done"
         /\ result = Raised("ValueError")
         /\ trace = <<>>
    ELSE \A i \in 1..Len(Gets) :
           /\ side # PyNone =>
                Gets[i].payload.side = (IF LowerStr(side.items) = <<"l", "o", "n", "g">>
                                        THEN "L" ELSE "S")
           /\ duration # PyNone =>
                Gets[i].payload.duration =
                  (IF LowerStr(duration.items) = <<"i", "n", "t", "r", "a", "d", "a", "y">>
                   THEN "I" ELSE "M")

\* the expression holds the lowercase word and, or the lowercase word or,
\* with a whitespace character on each side
HasLowercaseOperator(t) ==
  \E i \in 1..Len(t) :
    /\ t[i] \in Whitespace
    /\ \/ /\ i + 4 <= Len(t)
          /\ << t[i + 1], t[i + 2], t[i + 3] >> = <<"a", "n", "d">>
          /\ t[i + 4] \in Whitespace
       \/ /\ i + 3 <= Len(t)
          /\ << t[i + 1], t[i + 2] >> = <<"o", "r">>
          /\ t[i + 3] \in Whitespace

\* C15: the casing-hint warning is logged exactly by a listing that completes
\* with zero trades for a tag expression that holds a lowercase and/or between
\* whitespace; a listing that raises or returns None logs nothing.
C15_CasingHint ==
  /\ pc # "done" => ~warned
  /\ pc = "done" =>
       ( warned <=> /\ tag_expr # PyNone
                    /\ HasLowercaseOperator(tag_expr.items)
                    /\ result = Returned(PyList(<<>>)) )

C15_Witness ==
  /\ pc = "done"
  /\ warned
  /\ tag_expr = PyStr(<<"f", "o", "o", " ", "a", "n", "d", " ", "b", "a", "r">>)
  /\ Len(Gets) = 1
  /\ result = Returned(PyList(<<>>))

\* the answers so far are those of a server that holds N trades and answers
\* page p, count c with the trades at positions (p-1)*c+1 .. p*c
PagedServer(N) ==
  \A i \in 1..Len(Gets) :
    LET p == Gets[i].payload.page
        c == Gets[i].payload.count
        first == (p - 1) * c + 1
        last == IF p * c <= N THEN p * c ELSE N
    IN /\ HasTrades(Gets[i])
       /\ Gets[i].resp.body.trades = [k \in 1..(IF last >= first THEN last - first + 1 ELSE 0)
                                        |-> first + k - 1]

\* C20: against such a server get_trades(max_trades = M), M >= 1, returns the
\* first min(M, N) trades, each once and in order.
C20_FirstTradesInOrder ==
  \A N \in 0..(MaxTrades + PageSize) :
    (pc = "done" /\ max_trades >= 1 /\ Len(Gets) > 0 /\ PagedServer(N))
    => result = Returned(PyList([k \in 1..(IF max_trades <= N THEN max_trades ELSE N) |-> k]))

-----------------------------------------------------------------------------
(* More claims on import_executions, under the specification Spec *)

\* C16: every POST of the call carries the import batch built from the
\* caller's arguments.
C16_EveryPostCarriesBatch ==
  \A i \in 1..Len(Posts) : Posts[i].payload = batch

\* the steps the call has left, at most
StepsLeft ==
  IF pc = "submit" THEN retries_left + wait_retries + 5
  ELSE IF pc = "submitted" THEN wait_retries + 4
  ELSE IF pc = "poll" THEN retries_left + 2
  ELSE 0

\* C17: the call ends: every step of it leaves fewer steps to take, and a
\* call that has not ended can take a step.  It issues at most import_retries
\* POSTs and as many submission sleeps, at most wait_retries + 2 status queries
\* and wait_retries + 1 polling sleeps; no POST follows an answer other than
\* 424, no status query follows an answer other than queued or processing.
C17_BoundedAndEnding ==
  /\ [] ( /\ Len(Posts) <= import_retries
          /\ Len(SubmitSleeps) <= import_retries
          /\ Len(Gets) <= wait_retries + 2
          /\ Len(PollSleeps) <= wait_retries + 1
          /\ \A i \in 1..(Len(Posts) - 1) : Posts[i].resp.code = 424
          /\ \A i \in 1..(Len(Gets) - 1) : AnsweredStatus(Gets[i], InProgress)
          /\ StepsLeft >= 0
          /\ pc \in {"submit", "submitted", "poll"} => ENABLED Next )
  /\ [][pc # "idle" => StepsLeft' < StepsLeft]_vars

C17_Witness ==
  /\ pc = "done"
  /\ import_retries = 2
  /\ wait_retries = 1
  /\ Len(Posts) = 2
  /\ Len(Gets) = 3
  /\ Len(PollSleeps) = 2
  /\ result = Returned(PyNone)

\* C18: a status query answered ready is the last event of the call (no
\* status query or sleep follows it), and the call returns None.
C18_ReadyStopsPolling ==
  \A i \in 1..Len(Gets) :
    AnsweredStatus(Gets[i], {"ready"})
    => /\ i = Len(Gets)
       /\ trace[Len(trace)] = Gets[i]
       /\ pc \in {"poll", "done"}
       /\ pc = "done" => result = Returned(PyNone)

C18_Witness ==
  /\ pc = "done"
  /\ Len(Gets) = 2
  /\ AnsweredStatus(Gets[1], {"processing"})
  /\ AnsweredStatus(Gets[2], {"ready"})
  /\ result = Returned(PyNone)

\* C19: the call leaves the caller's tags list as it was passed.
C19_CallerTagsUnchanged ==
  pc # "idle" => caller_tags = tags_arg

-----------------------------------------------------------------------------
(* Claims on the resource operations, under the specification SpecResources *)

\* the value the operation returns on failure
IsFailureValue(o, v) ==
  IF o \in {"delete_trade", "update_trade", "update_user"} THEN v = PyBool(FALSE)
  ELSE IF o = "delete_trades" THEN v.type = "list" /\ PyBool(FALSE) \in Range(v.items)
  ELSE v = PyNone

\* the request was answered with a status other than 2xx, and a body that is
\* a JSON object or is not JSON
AnsweredFailure(e) ==
  /\ e.resp.code \notin {200, 201}
  /\ e.resp.body.kind \in {"object", "text"}

\* C12: a resource operation whose request is answered with a non-success
\* status returns its failure value and does not raise.
C12_FailureValueReturned ==
  (pc = "done" /\ Len(trace) = 1 /\ AnsweredFailure(trace[1]))
  => /\ result.outcome = "returned"
     /\ IsFailureValue(operation, result.value)

-----------------------------------------------------------------------------
(* Claims on __handle_bad_http_response, under the specification           *)
(* SpecInterpreter                                                         *)

\* the reason as the error field of a JSON body that has one, else its status
\* field, else the text of the body
DerivedReason(r) ==
  IF r.body.kind = "object" /\ r.body.error # Absent THEN FieldValue("error", r.body.error)
  ELSE IF r.body.kind = "object" /\ r.body.status # Absent
       THEN FieldValue("status", r.body.status)
  ELSE RawText(r)

\* C14: for every body of a non-2xx response the interpreter returns without
\* raising and has derived the reason from the error field, else the status
\* field, else the text of the body.
C14_InterpreterReturnsReason ==
  pc = "done" => /\ result = Returned(PyNone)
                 /\ logged = DerivedReason(response)

====
